---- MODULE Spec2Model ----
(***************************************************************************)
(* Model of mpr (src/mpr/src/main.rs): the orchestrator that walks a       *)
(* directory tree, spawns one detached task per git repository, runs the   *)
(* pull / dependency-update commands of each repository one after the      *)
(* other, streams every child's stdout and stderr through two detached     *)
(* reader tasks, and fans the pipelines' completion tokens in over an      *)
(* mpsc channel.                                                           *)
(*                                                                         *)
(* A step of a task is what the task does between two suspension points    *)
(* (child.wait(), read_line, tx.send, rx.recv); the writes of one          *)
(* print_with_prefix call are steps of their own, because reader tasks run *)
(* in parallel on the runtime's worker threads and share the two output    *)
(* destinations.  The console is taken to accept every write and           *)
(* child.wait() to succeed; Command::spawn and read_line may fail.         *)
(***************************************************************************)
EXTENDS Integers, Sequences, FiniteSets, TLC

\* ---------------------------------------------------------------- bounds
\* directory entries the walk yields
NumEntries == 2
\* lines all children together may write
MaxLines == 2
\* stream-read errors that may occur in one run
MaxFaults == 1
\* repositories the walk yields in the fan-in view of the pipelines
MaxRepos == 33

\* ------------------------------------------------------ program constants
\* mpsc::channel(32)
Capacity == 32

Entries == 1..NumEntries
Streams == {"out", "err"}
CmdStages == {"pull", "node", "cargo", "python"}
Invocations == Entries \X CmdStages
Readers == Entries \X CmdStages \X Streams

\* Option<Action>: Some(Pull), Some(Update), None
ActionValues == {"Pull", "Update", "None"}

\* the marker files update_dependencies looks for
MarkerFiles ==
    {"package-lock.json", "yarn.lock", "pnpm-lock.yaml", "Cargo.lock",
     "Pipfile", "poetry.lock", "requirements.txt"}

\* the sets of marker files a repository of the model may contain
MarkerSets ==
    { {},
      {"package-lock.json", "Cargo.lock"},
      {"yarn.lock", "pnpm-lock.yaml"},
      {"Cargo.lock", "poetry.lock", "requirements.txt"} }

VARIABLES
    action,     \* args.action, shared by every pipeline
    isRepo,     \* is_git_repo of every entry of the walk
    markers,    \* the marker files present in every entry
    opc,        \* process_repositories / main: "walk", "drain", "returned", "exited"
    next,       \* the entry the walk yields next
    txs,        \* live Sender handles: 0 is process_repositories' own tx
    chan,       \* tokens buffered in the channel
    received,   \* tokens rx.recv() has returned
    pst,        \* position of every pipeline task
    updated,    \* update_dependencies' local `updated`
    invoked,    \* the run_command calls of every pipeline, with their outcome
    printed,    \* what every pipeline wrote with println!/eprintln!
    tokens,     \* tokens every pipeline has sent
    child,      \* every invocation's child process
    pipe,       \* lines written by a child and not yet read
    nwritten,   \* lines a child has written to each of its streams
    rpc,        \* position of every reader task
    cur,        \* the print_with_prefix call a reader is in
    emitted,    \* the completed print_with_prefix calls of every reader
    rcap,       \* what every reader task captured (stream, colour, prefix, path)
    faults,     \* stream-read errors so far
    exitStatus, \* the status the process exited with, "none" while it runs
    working,    \* fan-in view: the number of pipelines inside process_repository
    sending,    \* fan-in view: the number of pipelines waiting in tx.send
    quota       \* lines and read errors the environment of this run produces

vars ==
    << action, isRepo, markers, opc, next, txs, chan, received, pst,
       updated, invoked, printed, tokens, child, pipe, nwritten, rpc, cur,
       emitted, rcap, faults, exitStatus, working, sending, quota >>

orchVars == << opc, next, txs, chan, received, exitStatus >>
inputVars == << action, isRepo, markers, quota >>
pipeVars == << pst, updated, invoked, printed, tokens >>
childVars == << child, pipe, nwritten >>
readerVars == << rpc, cur, emitted, rcap, faults >>
poolVars == << working, sending >>

\* ------------------------------------------------------------------ paths
\* base_path, and the path WalkDir yields for entry e
base_path == << 0 >>
EntryPath(e) == base_path \o << e >>

\* path.strip_prefix(base_path).unwrap_or(&path)
relative_path(path, base) ==
    IF Len(path) >= Len(base) /\ SubSeq(path, 1, Len(base)) = base
    THEN SubSeq(path, Len(base) + 1, Len(path))
    ELSE path


\* Repository::open(path).is_ok()
is_git_repo(e) == isRepo[e]

\* ------------------------------------------------- update_dependencies
\* the Node.js chain: package-lock.json, else yarn.lock, else pnpm-lock.yaml
NodeManager(m) ==
    IF "package-lock.json" \in m THEN "npm"
    ELSE IF "yarn.lock" \in m THEN "yarn"
    ELSE IF "pnpm-lock.yaml" \in m THEN "pnpm"
    ELSE "none"

\* the Rust check, independent of both chains
CargoManager(m) == IF "Cargo.lock" \in m THEN "cargo" ELSE "none"

\* the Python chain: Pipfile, else poetry.lock, else requirements.txt
PythonManager(m) ==
    IF "Pipfile" \in m THEN "pipenv"
    ELSE IF "poetry.lock" \in m THEN "poetry"
    ELSE IF "requirements.txt" \in m THEN "pip"
    ELSE "none"

\* the command run_command is called with at a position of the pipeline
CommandAt(m, stage) ==
    CASE stage = "pull" -> "git"
      [] stage = "node" -> NodeManager(m)
      [] stage = "cargo" -> CargoManager(m)
      [] stage = "python" -> PythonManager(m)
      [] OTHER -> "none"

\* the prefix argument of every run_command call
Prefix(cmd) ==
    CASE cmd = "git" -> "Git"
      [] cmd = "npm" -> "npm"
      [] cmd = "yarn" -> "Yarn"
      [] cmd = "pnpm" -> "pnpm"
      [] cmd = "cargo" -> "Cargo"
      [] cmd = "pipenv" -> "Pipenv"
      [] cmd = "poetry" -> "Poetry"
      [] cmd = "pip" -> "pip"
      [] OTHER -> ""

\* the marker file whose presence selects a manager
MarkerOf(cmd) ==
    CASE cmd = "npm" -> "package-lock.json"
      [] cmd = "yarn" -> "yarn.lock"
      [] cmd = "pnpm" -> "pnpm-lock.yaml"
      [] cmd = "cargo" -> "Cargo.lock"
      [] cmd = "pipenv" -> "Pipfile"
      [] cmd = "poetry" -> "poetry.lock"
      [] cmd = "pip" -> "requirements.txt"
      [] OTHER -> ""

\* update_dependencies from the statement after position pos on: the stage of
\* the next run_command call, "send" when the function runs to its end
NextInvocation(m, pos) ==
    IF pos = "pull" /\ NodeManager(m) # "none" THEN "node"
    ELSE IF pos \in {"pull", "node"} /\ CargoManager(m) # "none" THEN "cargo"
    ELSE IF pos \in {"pull", "node", "cargo"} /\ PythonManager(m) # "none" THEN "python"
    ELSE "send"

\* a pipeline that goes on to the dependency managers under every action
AfterCommandAlwaysUpdates(act, m, pos, status) == NextInvocation(m, pos)

\* a pipeline for which no subcommand means pull only
AfterCommandNonePulls(act, m, pos, status) ==
    IF pos = "pull" /\ act \in {"Pull", "None"} THEN "send"
    ELSE NextInvocation(m, pos)

\* a pipeline that gives up after a command that exited non-zero
AfterCommandFailFast(act, m, pos, status) ==
    IF status # "ok" THEN "send"
    ELSE IF pos = "pull" /\ act = "Pull" THEN "send"
    ELSE NextInvocation(m, pos)

\* process_repository after run_command returned at position pos: the match
\* on action, and the status of the command, which nothing inspects
AfterCommand(act, m, pos, status) ==
    IF pos = "pull" /\ act = "Pull" THEN "send"
    ELSE NextInvocation(m, pos)

\* ----------------------------------------------------------- run_command
\* readers that both print in green on standard output
ReaderCaptureOneStream(s, prefix, rel) ==
    [dest |-> "stdout", color |-> "Green", prefix |-> prefix, rel |-> rel]

\* what the reader task of stream s moves into its closure
ReaderCapture(s, prefix, rel) ==
    [dest |-> IF s = "out" THEN "stdout" ELSE "stderr",
     color |-> IF s = "out" THEN "Green" ELSE "Red",
     prefix |-> prefix,
     rel |-> rel]

NoCapture == [dest |-> "", color |-> "", prefix |-> "", rel |-> << >>]

\* a reader that takes the newest line of the pipe
ReadLineNewest(q) == [line |-> q[Len(q)], rest |-> SubSeq(q, 1, Len(q) - 1)]

\* read_line: the oldest unread line of the pipe
ReadLine(q) == [line |-> Head(q), rest |-> Tail(q)]

\* a print_with_prefix call that has written nothing yet
Blank ==
    [line |-> 0, color |-> "", tag |-> [rel |-> << >>, prefix |-> ""],
     reset |-> FALSE, text |-> 0]

\* a panic that takes every task down with it
UnwindAbort(e) ==
    [pst |-> [q \in Entries |-> IF pst[q] = "none" THEN "none" ELSE "panicked"],
     txs |-> txs \ Entries]

\* a panic in the task of pipeline e: the task ends, its tx clone is dropped
Unwind(e) ==
    [pst |-> [pst EXCEPT ![e] = "panicked"], txs |-> txs \ {e}]

\* a child.wait() that returns while the process is still running
WaitDoneAtOnce(k) == child[k] # "none"

\* child.wait().await has its result: the process of invocation k has exited
WaitDone(k) == child[k] \in {"ok", "fail"}

\* a read error that unwinds into the pipeline inside that run_command call
ReaderUnwindJoined(r) ==
    [rpc |-> [rpc EXCEPT ![r] = "panicked"],
     pst |-> IF pst[r[1]] = r[2] THEN [pst EXCEPT ![r[1]] = "panicked"] ELSE pst,
     txs |-> IF pst[r[1]] = r[2] THEN txs \ {r[1]} ELSE txs]

\* a panic in the detached reader task r: that task ends; nobody holds its
\* JoinHandle, so the pipeline and the other reader go on
ReaderUnwind(r) ==
    [rpc |-> [rpc EXCEPT ![r] = "panicked"], pst |-> pst, txs |-> txs]

RECURSIVE SumWritten(_)
SumWritten(S) ==
    IF S = {} THEN 0
    ELSE LET r == CHOOSE x \in S : TRUE
         IN nwritten[r] + SumWritten(S \ {r})

\* lines written so far by all children
TotalWritten == SumWritten({r \in Readers : nwritten[r] > 0})

\* a reader between reading a line and the end of its print_with_prefix call
Busy(r) == rpc[r] \in {"set_color", "tag", "reset", "text", "flush"}

\* read_line would return 0: the child is gone and the pipe is drained
AtEof(r) == child[<< r[1], r[2] >>] \in {"ok", "fail"} /\ pipe[r] = << >>


\* the tasks that ended in a panic: pipelines and readers
PanickedTasks ==
    {e \in Entries : pst[e] = "panicked"} \cup {r \in Readers : rpc[r] = "panicked"}

\* a main that joins its tasks and fails when one of them panicked
ExitStatusOfJoinedTasks(panicked) == IF panicked = {} THEN 0 ELSE 101

\* main returns (): the JoinHandle of every spawned task was dropped, so the
\* panic of a task reaches nobody, and the process exits with status 0
ExitStatus(panicked) == 0

\* -------------------------------------------------------------- messages
Msg(dest, text, arg) == [dest |-> dest, text |-> text, arg |-> arg]

\* an `updated` that is set only by a manager that exited with status 0
UpdatedOnSuccess(u, status) == u \/ status = "ok"

\* update_dependencies' `updated = true` after run_command returned from a
\* manager, whatever the flag was and whatever the status is
UpdatedAfter(u, status) == TRUE

\* a status report that goes to standard output for failures too
StatusLineAllStdout(status, cmd) ==
    Msg("stdout", IF status = "ok" THEN "Successfully ran" ELSE "Failed to run", cmd)

\* run_command after child.wait(): eprintln! for a non-zero status, println!
\* for success
StatusLine(status, cmd) ==
    IF status = "ok"
    THEN Msg("stdout", "Successfully ran", cmd)
    ELSE Msg("stderr", "Failed to run", cmd)

\* what the pipeline prints between the return of run_command at position
\* pos and its next suspension: the entry of update_dependencies, the
\* "Detected" line of the next manager, the closing diagnostic
Continuation(act, m, pos, nxt, upd) ==
    (IF pos = "pull" /\ act # "Pull"
     THEN << Msg("stdout", "Updating dependencies for", "") >>
     ELSE << >>)
    \o
    (IF nxt \in CmdStages
     THEN << Msg("stdout", "Detected dependencies in", MarkerOf(CommandAt(m, nxt))) >>
     ELSE << >>)
    \o
    (IF nxt = "send" /\ ~(pos = "pull" /\ act = "Pull") /\ ~upd
     THEN << Msg("stdout", "No recognized dependency manager found for", "") >>
     ELSE << >>)

\* ------------------------------------------------------------------- Init
\* The runs explored.  Silent: every walk, every action, every marker set,
\* with children that write nothing and pipes that never fail.  Chatty pulls:
\* every entry a repository, pull only, children that write up to MaxLines
\* lines and up to MaxFaults failing reads.  Chatty update: one repository
\* with a Cargo.lock, updated, with the same children.
SilentRun ==
    /\ action \in ActionValues
    /\ isRepo \in [Entries -> BOOLEAN]
    /\ markers \in [Entries -> MarkerSets]
    /\ \A e \in Entries : ~isRepo[e] => markers[e] = {}
    /\ quota = [lines |-> 0, faults |-> 0]

ChattyPulls ==
    /\ action = "Pull"
    /\ isRepo = [e \in Entries |-> TRUE]
    /\ markers = [e \in Entries |-> {}]
    /\ quota = [lines |-> MaxLines, faults |-> MaxFaults]

ChattyUpdate ==
    /\ action \in {"Update", "None"}
    /\ isRepo = [e \in Entries |-> e = 1]
    /\ markers = [e \in Entries |-> IF e = 1 THEN {"Cargo.lock"} ELSE {}]
    /\ quota = [lines |-> MaxLines, faults |-> MaxFaults]

Init ==
    /\ SilentRun \/ ChattyPulls \/ ChattyUpdate
    /\ opc = "walk"
    /\ next = 1
    /\ txs = {0}
    /\ chan = 0
    /\ received = 0
    /\ pst = [e \in Entries |-> "none"]
    /\ updated = [e \in Entries |-> FALSE]
    /\ invoked = [e \in Entries |-> << >>]
    /\ printed = [e \in Entries |-> << >>]
    /\ tokens = [e \in Entries |-> 0]
    /\ child = [k \in Invocations |-> "none"]
    /\ pipe = [r \in Readers |-> << >>]
    /\ nwritten = [r \in Readers |-> 0]
    /\ rpc = [r \in Readers |-> "none"]
    /\ cur = [r \in Readers |-> Blank]
    /\ emitted = [r \in Readers |-> << >>]
    /\ rcap = [r \in Readers |-> NoCapture]
    /\ faults = 0
    /\ exitStatus = "none"
    /\ working = 0
    /\ sending = 0

\* ---------------------------------------------------- process_repositories
\* one iteration of the WalkDir loop: a repository gets a tx clone and a task
Discover ==
    /\ opc = "walk"
    /\ next <= NumEntries
    /\ IF is_git_repo(next)
       THEN /\ txs' = txs \cup {next}
            /\ pst' = [pst EXCEPT ![next] = "start"]
       ELSE UNCHANGED << txs, pst >>
    /\ next' = next + 1
    /\ UNCHANGED << opc, chan, received, exitStatus, updated, invoked, printed, tokens >>
    /\ UNCHANGED << inputVars, poolVars, childVars, readerVars >>

\* drop(tx), once the walk is exhausted
DropTx ==
    /\ opc = "walk"
    /\ next > NumEntries
    /\ txs' = txs \ {0}
    /\ opc' = "drain"
    /\ UNCHANGED << next, chan, received, exitStatus >>
    /\ UNCHANGED << inputVars, poolVars, pipeVars, childVars, readerVars >>

\* rx.recv().await returns Some(()): one more turn of the while loop
RecvSome ==
    /\ opc = "drain"
    /\ chan > 0
    /\ chan' = chan - 1
    /\ received' = received + 1
    /\ UNCHANGED << opc, next, txs, exitStatus >>
    /\ UNCHANGED << inputVars, poolVars, pipeVars, childVars, readerVars >>

\* rx.recv().await returns None: the channel is empty and every Sender is
\* dropped; process_repositories returns
RecvNone ==
    /\ opc = "drain"
    /\ chan = 0
    /\ txs = {}
    /\ opc' = "returned"
    /\ UNCHANGED << next, txs, chan, received, exitStatus >>
    /\ UNCHANGED << inputVars, poolVars, pipeVars, childVars, readerVars >>

\* main returns: the runtime shuts down, a task inside a poll finishes that
\* poll, every other task is dropped where it is suspended
MainReturn ==
    /\ opc = "returned"
    /\ \A r \in Readers : ~Busy(r)
    /\ opc' = "exited"
    /\ exitStatus' = ExitStatus(PanickedTasks)
    /\ UNCHANGED << next, txs, chan, received >>
    /\ UNCHANGED << inputVars, poolVars, pipeVars, childVars, readerVars >>

\* ------------------------------------------------------ process_repository
\* run_command up to child.wait(): Command::spawn succeeds (ok), both reader
\* tasks are spawned and the caller suspends; or it fails and
\* expect("Failed to execute command") panics, which unwinds the pipeline task.
\* inv is the pipeline's list of run_command calls so far.
RunCommand(e, st, ok, inv) ==
    LET cmd == CommandAt(markers[e], st)
        rel == relative_path(EntryPath(e), base_path)
    IN IF ok
       THEN /\ pst' = [pst EXCEPT ![e] = st]
            /\ child' = [child EXCEPT ![<< e, st >>] = "running"]
            /\ rpc' = [r \in Readers |->
                  IF r[1] = e /\ r[2] = st THEN "read" ELSE rpc[r]]
            /\ rcap' = [r \in Readers |->
                  IF r[1] = e /\ r[2] = st
                  THEN ReaderCapture(r[3], Prefix(cmd), rel)
                  ELSE rcap[r]]
            /\ invoked' = [invoked EXCEPT ![e] =
                  Append(inv, [cmd |-> cmd, res |-> "running"])]
            /\ UNCHANGED txs
       ELSE /\ pst' = Unwind(e).pst
            /\ txs' = Unwind(e).txs
            /\ invoked' = [invoked EXCEPT ![e] =
                  Append(inv, [cmd |-> cmd, res |-> "launchfail"])]
            /\ UNCHANGED << child, rpc, rcap >>

\* the first poll of the task: process_repository and pull_repo print their
\* lines and run_command("git", ["pull"], "Git") is entered
StartPipeline(e, ok) ==
    /\ opc # "exited"
    /\ pst[e] = "start"
    /\ printed' = [printed EXCEPT ![e] =
            @ \o << Msg("stdout", "Found repository:", ""),
                    Msg("stdout", "Pulling repository at", "") >>]
    /\ RunCommand(e, "pull", ok, invoked[e])
    /\ UNCHANGED << updated, tokens, pipe, nwritten, cur, emitted, faults >>
    /\ UNCHANGED << inputVars, poolVars, opc, next, chan, received, exitStatus >>

\* child.wait() returns: run_command prints the status line and returns, and
\* the pipeline runs on to its next run_command call, or to tx.send
WaitReturns(e, ok) ==
    /\ opc # "exited"
    /\ pst[e] \in CmdStages
    /\ WaitDone(<< e, pst[e] >>)
    /\ LET pos == pst[e]
           status == child[<< e, pos >>]
           cmd == CommandAt(markers[e], pos)
           nxt == AfterCommand(action, markers[e], pos, status)
           upd == IF pos = "pull" THEN FALSE ELSE UpdatedAfter(updated[e], status)
           inv == [invoked[e] EXCEPT ![Len(invoked[e])].res = status]
       IN /\ updated' = [updated EXCEPT ![e] = upd]
          /\ printed' = [printed EXCEPT ![e] =
                @ \o << StatusLine(status, cmd) >>
                  \o Continuation(action, markers[e], pos, nxt, upd)]
          /\ IF nxt \in CmdStages
             THEN RunCommand(e, nxt, ok, inv)
             ELSE /\ ok
                  /\ pst' = [pst EXCEPT ![e] = "send"]
                  /\ invoked' = [invoked EXCEPT ![e] = inv]
                  /\ UNCHANGED << txs, child, rpc, rcap >>
    /\ UNCHANGED << tokens, pipe, nwritten, cur, emitted, faults >>
    /\ UNCHANGED << inputVars, poolVars, opc, next, chan, received, exitStatus >>

\* tx.send(()).await: waits for a free slot of the channel
SendToken(e) ==
    /\ opc # "exited"
    /\ pst[e] = "send"
    /\ chan < Capacity
    /\ chan' = chan + 1
    /\ tokens' = [tokens EXCEPT ![e] = @ + 1]
    /\ pst' = [pst EXCEPT ![e] = "sent"]
    /\ UNCHANGED << opc, next, txs, received, exitStatus, updated, invoked, printed >>
    /\ UNCHANGED << inputVars, poolVars, childVars, readerVars >>

\* the task body ends: its tx clone is dropped
TaskEnd(e) ==
    /\ opc # "exited"
    /\ pst[e] = "sent"
    /\ pst' = [pst EXCEPT ![e] = "done"]
    /\ txs' = txs \ {e}
    /\ UNCHANGED << opc, next, chan, received, exitStatus, updated, invoked, printed, tokens >>
    /\ UNCHANGED << inputVars, poolVars, childVars, readerVars >>

\* ------------------------------------------------------ the child process
\* the child writes one more line to one of its two piped streams
ChildWrite(k, s) ==
    /\ opc # "exited"
    /\ child[k] = "running"
    /\ TotalWritten < quota.lines
    /\ LET r == << k[1], k[2], s >>
       IN /\ nwritten' = [nwritten EXCEPT ![r] = @ + 1]
          /\ pipe' = [pipe EXCEPT ![r] = Append(@, nwritten[r] + 1)]
    /\ UNCHANGED << child >>
    /\ UNCHANGED << inputVars, poolVars, orchVars, pipeVars, readerVars >>

\* the child exits, with a zero or a non-zero status, closing both pipes
ChildExit(k, status) ==
    /\ opc # "exited"
    /\ child[k] = "running"
    /\ child' = [child EXCEPT ![k] = status]
    /\ UNCHANGED << pipe, nwritten >>
    /\ UNCHANGED << inputVars, poolVars, orchVars, pipeVars, readerVars >>

\* ------------------------------------------------------- the reader tasks
\* read_line returns a line (more than 0 bytes)
ReadLineOk(r) ==
    /\ opc # "exited"
    /\ rpc[r] = "read"
    /\ pipe[r] # << >>
    /\ cur' = [cur EXCEPT ![r] = [Blank EXCEPT !.line = ReadLine(pipe[r]).line]]
    /\ pipe' = [pipe EXCEPT ![r] = ReadLine(pipe[r]).rest]
    /\ rpc' = [rpc EXCEPT ![r] = "set_color"]
    /\ UNCHANGED << child, nwritten, emitted, rcap, faults >>
    /\ UNCHANGED << inputVars, poolVars, orchVars, pipeVars >>

\* read_line returns Err and unwrap() panics: the reader task ends
ReadLineErr(r) ==
    /\ opc # "exited"
    /\ rpc[r] = "read"
    /\ ~AtEof(r)
    /\ faults < quota.faults
    /\ faults' = faults + 1
    /\ rpc' = ReaderUnwind(r).rpc
    /\ pst' = ReaderUnwind(r).pst
    /\ txs' = ReaderUnwind(r).txs
    /\ UNCHANGED << cur, emitted, rcap >>
    /\ UNCHANGED << opc, next, chan, received, exitStatus >>
    /\ UNCHANGED << updated, invoked, printed, tokens >>
    /\ UNCHANGED << inputVars, poolVars, childVars >>

\* print_with_prefix: stream.set_color(ColorSpec::new().set_fg(Some(color)))
SetColor(r) ==
    /\ opc # "exited"
    /\ rpc[r] = "set_color"
    /\ cur' = [cur EXCEPT ![r].color = rcap[r].color]
    /\ rpc' = [rpc EXCEPT ![r] = "tag"]
    /\ UNCHANGED << emitted, rcap, faults >>
    /\ UNCHANGED << inputVars, poolVars, orchVars, pipeVars, childVars >>

\* print_with_prefix: write!(stream, "[{}][{}] ", relative_path, prefix)
WriteTag(r) ==
    /\ opc # "exited"
    /\ rpc[r] = "tag"
    /\ cur' = [cur EXCEPT ![r].tag = [rel |-> rcap[r].rel, prefix |-> rcap[r].prefix]]
    /\ rpc' = [rpc EXCEPT ![r] = "reset"]
    /\ UNCHANGED << emitted, rcap, faults >>
    /\ UNCHANGED << inputVars, poolVars, orchVars, pipeVars, childVars >>

\* print_with_prefix: stream.reset()
ResetColor(r) ==
    /\ opc # "exited"
    /\ rpc[r] = "reset"
    /\ cur' = [cur EXCEPT ![r].reset = TRUE]
    /\ rpc' = [rpc EXCEPT ![r] = "text"]
    /\ UNCHANGED << emitted, rcap, faults >>
    /\ UNCHANGED << inputVars, poolVars, orchVars, pipeVars, childVars >>

\* print_with_prefix: write!(stream, "{}", message)
WriteText(r) ==
    /\ opc # "exited"
    /\ rpc[r] = "text"
    /\ cur' = [cur EXCEPT ![r].text = cur[r].line]
    /\ rpc' = [rpc EXCEPT ![r] = "flush"]
    /\ UNCHANGED << emitted, rcap, faults >>
    /\ UNCHANGED << inputVars, poolVars, orchVars, pipeVars, childVars >>

\* print_with_prefix: stream.flush(); then line.clear() and the next read_line
Flush(r) ==
    /\ opc # "exited"
    /\ rpc[r] = "flush"
    /\ emitted' = [emitted EXCEPT ![r] =
            Append(@, [dest |-> rcap[r].dest, color |-> cur[r].color,
                       tag |-> cur[r].tag, reset |-> cur[r].reset,
                       text |-> cur[r].text])]
    /\ cur' = [cur EXCEPT ![r] = Blank]
    /\ rpc' = [rpc EXCEPT ![r] = "read"]
    /\ UNCHANGED << rcap, faults >>
    /\ UNCHANGED << inputVars, poolVars, orchVars, pipeVars, childVars >>

\* ------------------------------------------------------------------- Next
Next ==
    \/ Discover
    \/ DropTx
    \/ RecvSome
    \/ RecvNone
    \/ MainReturn
    \/ \E e \in Entries, ok \in BOOLEAN : StartPipeline(e, ok)
    \/ \E e \in Entries, ok \in BOOLEAN : WaitReturns(e, ok)
    \/ \E e \in Entries : SendToken(e)
    \/ \E e \in Entries : TaskEnd(e)
    \/ \E k \in Invocations, s \in Streams : ChildWrite(k, s)
    \/ \E k \in Invocations, status \in {"ok", "fail"} : ChildExit(k, status)
    \/ \E r \in Readers : ReadLineOk(r)
    \/ \E r \in Readers : ReadLineErr(r)
    \/ \E r \in Readers : SetColor(r)
    \/ \E r \in Readers : WriteTag(r)
    \/ \E r \in Readers : ResetColor(r)
    \/ \E r \in Readers : WriteText(r)
    \/ \E r \in Readers : Flush(r)

Spec == Init /\ [][Next]_vars

\* ------------------------------------------------- the fan-in, at scale
\* process_repositories with more repositories than the channel has slots.
\* The pipelines are counted, not told apart: `working` of them are inside
\* process_repository, `sending` of them wait in tx.send, the others have
\* ended.  opc, next and chan are what they are above; the walk yields
\* repositories only, and any number of them up to MaxRepos.  Every command
\* that was launched exits, so that a working pipeline comes to the end of
\* process_repository, or panics in it.
detailVars ==
    << inputVars, pipeVars, childVars, readerVars, txs, received, exitStatus >>

\* a tx that process_repositories never drops
LiveSendersOwnKept == 1 + working + sending

\* the Sender handles alive: process_repositories' own until drop(tx), and
\* the clone of every pipeline task that has not ended
LiveSenders == (IF opc = "walk" THEN 1 ELSE 0) + working + sending

PoolInit ==
    /\ Init
    /\ action = "Pull"
    /\ isRepo = [e \in Entries |-> FALSE]
    /\ quota = [lines |-> 0, faults |-> 0]

\* one iteration of the WalkDir loop on a repository: tx.clone(), tokio::spawn
PoolDiscover ==
    /\ opc = "walk"
    /\ next <= MaxRepos
    /\ next' = next + 1
    /\ working' = working + 1
    /\ UNCHANGED << opc, chan, sending, detailVars >>

\* the walk is exhausted: drop(tx)
PoolDropTx ==
    /\ opc = "walk"
    /\ opc' = "drain"
    /\ UNCHANGED << next, chan, working, sending, detailVars >>

\* process_repository returns in one of the pipelines and the task comes to
\* tx.send (ok), or a command fails to launch and the task panics, dropping
\* its tx clone
PoolFinish(ok) ==
    /\ working > 0
    /\ working' = working - 1
    /\ sending' = IF ok THEN sending + 1 ELSE sending
    /\ UNCHANGED << opc, next, chan, detailVars >>

\* tx.send(()).await gets a slot of the channel; the task body ends and its
\* tx clone is dropped
PoolSend ==
    /\ sending > 0
    /\ chan < Capacity
    /\ chan' = chan + 1
    /\ sending' = sending - 1
    /\ UNCHANGED << opc, next, working, detailVars >>

\* rx.recv().await returns Some(())
PoolRecvSome ==
    /\ opc = "drain"
    /\ chan > 0
    /\ chan' = chan - 1
    /\ UNCHANGED << opc, next, working, sending, detailVars >>

\* rx.recv().await returns None: process_repositories returns
PoolRecvNone ==
    /\ opc = "drain"
    /\ chan = 0
    /\ LiveSenders = 0
    /\ opc' = "returned"
    /\ UNCHANGED << next, chan, working, sending, detailVars >>

PoolNext ==
    \/ PoolDiscover
    \/ PoolDropTx
    \/ \E ok \in BOOLEAN : PoolFinish(ok)
    \/ PoolSend
    \/ PoolRecvSome
    \/ PoolRecvNone

\* the walk is finite, the runtime polls every task that can run, and every
\* launched command exits
PoolFairness ==
    /\ WF_vars(PoolDropTx)
    /\ WF_vars(\E ok \in BOOLEAN : PoolFinish(ok))
    /\ WF_vars(PoolSend)
    /\ WF_vars(PoolRecvSome)
    /\ WF_vars(PoolRecvNone)

PoolSpec == PoolInit /\ [][PoolNext]_vars /\ PoolFairness


\* ========================================================== properties
Repos == {e \in Entries : isRepo[e]}

\* process_repositories has returned
Returned == opc \in {"returned", "exited"}

\* the task of pipeline e has ended, by reaching its end or by a panic
Ended(e) == pst[e] \in {"done", "panicked"}

\* the commands of the run_command calls pipeline e has made, in order
Commands(e) == [i \in 1..Len(invoked[e]) |-> invoked[e][i].cmd]

LaunchFailed(e) == \E i \in 1..Len(invoked[e]) : invoked[e][i].res = "launchfail"

\* update_dependencies was entered by pipeline e
EnteredUpdate(e) ==
    \E i \in 1..Len(printed[e]) : printed[e][i].text = "Updating dependencies for"

IsManager(c) == c # "none"

\* the steps the pipeline of a repository with markers m is to attempt
Plan(act, m) ==
    << "git" >> \o
    (IF act = "Pull" THEN << >>
     ELSE SelectSeq(<< NodeManager(m), CargoManager(m), PythonManager(m) >>, IsManager))

\* a print_with_prefix call that has begun to write and has not flushed
InCall(r) == rpc[r] \in {"tag", "reset", "text", "flush"}

\* C1: process_repositories does not return before exactly N completion
\* tokens have been received, N the number of repositories discovered.
C1_ReturnsAfterNTokens ==
    Returned => received = Cardinality(Repos)

\* C2: every spawned pipeline sends exactly one CompletionToken, never zero
\* and never more than one, whatever happened in its steps.
C2_ExactlyOneToken ==
    \A e \in Entries :
        /\ tokens[e] <= 1
        /\ Ended(e) => tokens[e] = 1

\* C3: two print_with_prefix calls on the same destination never interleave:
\* no call begins to write while another call on that destination has begun
\* and has not yet flushed.
C3_EmitAtomic ==
    \A r1, r2 \in Readers :
        (r1 # r2 /\ InCall(r1) /\ InCall(r2)) => rcap[r1].dest # rcap[r2].dest

\* C4: every line a child wrote to either stream is emitted exactly once,
\* also when the process exits: at exit no written line is left unemitted.
C4_EveryLineEmitted ==
    opc = "exited" => \A r \in Readers : Len(emitted[r]) = nwritten[r]

\* the display name the command of stage st of a repository goes by
DisplayName(m, st) ==
    CASE st = "pull" -> "Git"
      [] st = "cargo" -> "Cargo"
      [] st = "node" ->
            IF "package-lock.json" \in m THEN "npm"
            ELSE IF "yarn.lock" \in m THEN "Yarn" ELSE "pnpm"
      [] st = "python" ->
            IF "Pipfile" \in m THEN "Pipenv"
            ELSE IF "poetry.lock" \in m THEN "Poetry" ELSE "pip"

\* what a call of the reader of stream r[3] of invocation (r[1], r[2]) is to
\* write for line n
Attributed(r, c) ==
    /\ c.dest = (IF r[3] = "out" THEN "stdout" ELSE "stderr")
    /\ c.color = (IF r[3] = "out" THEN "Green" ELSE "Red")
    /\ c.tag = [rel |-> << r[1] >>, prefix |-> DisplayName(markers[r[1]], r[2])]
    /\ c.reset
    /\ c.text \in 1..nwritten[r]

\* C5: every emitted line goes to the destination of its stream, in the
\* colour of its stream (stdout green, stderr red), tagged with the relative
\* path of its own repository and the prefix of its own command, followed by
\* a line of its own child's stream; a call in progress has written nothing
\* that belongs to another source either.
C5_Attribution ==
    \A r \in Readers :
        /\ \A i \in 1..Len(emitted[r]) : Attributed(r, emitted[r][i])
        /\ InCall(r) =>
              /\ rcap[r].dest = (IF r[3] = "out" THEN "stdout" ELSE "stderr")
              /\ cur[r].color = (IF r[3] = "out" THEN "Green" ELSE "Red")
              /\ rpc[r] # "tag" =>
                    cur[r].tag = [rel |-> << r[1] >>,
                                  prefix |-> DisplayName(markers[r[1]], r[2])]
              /\ rpc[r] = "flush" => cur[r].text \in 1..nwritten[r]

C5_Witness ==
    \E r1, r2 \in Readers :
        /\ r1[1] # r2[1]
        /\ r1[3] = "out" /\ r2[3] = "err"
        /\ Len(emitted[r1]) >= 1 /\ Len(emitted[r2]) >= 1

\* C6: within one stream of one invocation lines are emitted in the order
\* the child wrote them: the i-th completed emit of a reader carries the
\* i-th line of its stream, the call in progress carries the next one, and
\* the unread lines follow in order.
C6_StreamOrder ==
    \A r \in Readers :
        /\ \A i \in 1..Len(emitted[r]) : emitted[r][i].text = i
        /\ Busy(r) => cur[r].line = Len(emitted[r]) + 1
        /\ Len(emitted[r]) + (IF Busy(r) THEN 1 ELSE 0) + Len(pipe[r]) = nwritten[r]
        /\ \A j \in 1..Len(pipe[r]) : pipe[r][j] = nwritten[r] - Len(pipe[r]) + j

C6_Witness ==
    \E r \in Readers :
        /\ Len(emitted[r]) = 2
        /\ emitted[r][1].text = 1 /\ emitted[r][2].text = 2


\* the texts pipeline e printed on standard error
Diagnostics(e) ==
    {printed[e][i] : i \in {j \in 1..Len(printed[e]) : printed[e][j].dest = "stderr"}}

\* C7: a failure to launch a command is confined to that invocation:
\* run_command returns and the sibling invocations that follow it in the
\* pipeline (the dependency-update step after a pull that failed to launch,
\* a later manager after one that failed to launch) are still attempted.
C7_LaunchFailureConfined ==
    \A e \in Entries :
        (Ended(e) /\ LaunchFailed(e)) =>
            /\ Commands(e) = Plan(action, markers[e])
            /\ action # "Pull" => EnteredUpdate(e)

\* C8: a non-zero exit status never skips a later step: the only thing that
\* cuts the run_command calls of a pipeline short of its plan is a command
\* that failed to launch.  After a pull that exited (zero or non-zero) under
\* update or no subcommand, update_dependencies is entered; a command that
\* exited non-zero is reported on standard error, and is the last call of
\* its pipeline only if it is the last of the plan.
C8_NonZeroExitNeverSkips ==
    \A e \in Entries :
        LET n == Len(invoked[e])
            plan == Plan(action, markers[e])
        IN /\ n <= Len(plan)
           /\ Commands(e) = SubSeq(plan, 1, n)
           /\ Ended(e) => (n = Len(plan) \/ invoked[e][n].res = "launchfail")
           /\ \A i \in 1..n :
                 invoked[e][i].res = "fail" =>
                    /\ Msg("stderr", "Failed to run", invoked[e][i].cmd) \in Diagnostics(e)
                    /\ i < n \/ n = Len(plan)
                    /\ (i = 1 /\ action # "Pull") => EnteredUpdate(e)
           /\ (n >= 1 /\ invoked[e][1].res = "ok" /\ action # "Pull") => EnteredUpdate(e)

C8_Witness ==
    \E e \in Entries :
        /\ action # "Pull"
        /\ pst[e] = "done"
        /\ Len(invoked[e]) = 3
        /\ invoked[e][1].res = "fail"
        /\ invoked[e][2].res = "fail"
        /\ invoked[e][3].res = "ok"

\* C9: fault isolation between repositories.  Discovery launches the
\* pipeline of every repository whatever happened in those launched before;
\* a pipeline is ended early only by a launch failure of its own; and once
\* process_repositories has returned, every repository without a launch
\* failure of its own has run its whole plan and sent its token, whatever
\* failed (non-zero exit, launch failure, read error) in the others.
C9_FaultIsolation ==
    \A q \in Entries :
        /\ (isRepo[q] /\ next > q) => pst[q] # "none"
        /\ pst[q] = "panicked" =>
              (Len(invoked[q]) >= 1 /\ invoked[q][Len(invoked[q])].res = "launchfail")
        /\ (Returned /\ isRepo[q] /\ ~LaunchFailed(q)) =>
              /\ pst[q] = "done"
              /\ tokens[q] = 1
              /\ Commands(q) = Plan(action, markers[q])

C9_Witness ==
    \E p, q \in Entries :
        /\ p < q
        /\ Returned
        /\ pst[p] = "panicked"
        /\ pst[q] = "done" /\ tokens[q] = 1
        /\ Len(invoked[q]) >= 2
        /\ \E i \in 1..Len(invoked[q]) : invoked[q][i].res = "fail"

\* the family of a dependency manager
Family(cmd) ==
    CASE cmd \in {"npm", "yarn", "pnpm"} -> "node"
      [] cmd = "cargo" -> "rust"
      [] cmd \in {"pipenv", "poetry", "pip"} -> "python"
      [] OTHER -> "none"

\* the families of which a marker file is present
FamiliesPresent(m) ==
    {Family(c) : c \in {"npm", "yarn", "pnpm", "cargo", "pipenv", "poetry", "pip"}}
    \cap {f \in {"node", "rust", "python"} :
            \E c \in {"npm", "yarn", "pnpm", "cargo", "pipenv", "poetry", "pip"} :
                Family(c) = f /\ MarkerOf(c) \in m}

\* the run_command calls of pipeline e for a manager of family f
CallsOfFamily(e, f) ==
    Cardinality({i \in 1..Len(invoked[e]) : Family(invoked[e][i].cmd) = f})

\* C10: for a repository whose markers match managers of different families,
\* update_dependencies invokes the manager of each matching family exactly
\* once and no manager of a family without a marker.
C10_EachFamilyOnce ==
    \A e \in Entries :
        (Ended(e) /\ EnteredUpdate(e) /\ Cardinality(FamiliesPresent(markers[e])) >= 2) =>
            \A f \in {"node", "rust", "python"} :
                CallsOfFamily(e, f) = (IF f \in FamiliesPresent(markers[e]) THEN 1 ELSE 0)

\* the priority order of the marker files of the two families with alternatives
NodePriority == << "package-lock.json", "yarn.lock", "pnpm-lock.yaml" >>
PythonPriority == << "Pipfile", "poetry.lock", "requirements.txt" >>

\* the first marker of a priority order that is present
FirstPresent(order, m) ==
    order[CHOOSE i \in 1..Len(order) :
            order[i] \in m /\ \A j \in 1..(i - 1) : order[j] \notin m]

\* C11: at most one Node.js manager and at most one Python manager is
\* invoked by update_dependencies, the one invoked is the manager of the
\* first marker present in the priority order of its family, and cargo is
\* invoked exactly when Cargo.lock is present, whatever the two families did.
C11_FamilyPriority ==
    \A e \in Entries :
        (Ended(e) /\ EnteredUpdate(e)) =>
            /\ CallsOfFamily(e, "node") <= 1
            /\ CallsOfFamily(e, "python") <= 1
            /\ \A i \in 1..Len(invoked[e]) :
                  /\ Family(invoked[e][i].cmd) = "node" =>
                        MarkerOf(invoked[e][i].cmd) = FirstPresent(NodePriority, markers[e])
                  /\ Family(invoked[e][i].cmd) = "python" =>
                        MarkerOf(invoked[e][i].cmd) = FirstPresent(PythonPriority, markers[e])
            /\ CallsOfFamily(e, "rust") = (IF "Cargo.lock" \in markers[e] THEN 1 ELSE 0)

\* C12: the process terminates once every pipeline is done, and with exit
\* status 0 whatever the commands did: no command that exited non-zero, no
\* command that failed to launch and no stream-read error changes the status.
C12_ExitStatusZero ==
    /\ opc # "exited" => exitStatus = "none"
    /\ opc = "exited" =>
          /\ exitStatus = 0
          /\ \A e \in Repos : Ended(e)

C12_Witness ==
    /\ opc = "exited"
    /\ \E e \in Entries : LaunchFailed(e)
    /\ \E e \in Entries : \E i \in 1..Len(invoked[e]) : invoked[e][i].res = "fail"
    /\ \E r \in Readers : rpc[r] = "panicked"

\* the "Detected ... dependencies" lines pipeline e printed
DetectedLines(e) ==
    {i \in 1..Len(printed[e]) : printed[e][i].text = "Detected dependencies in"}

\* pipeline e does, as far as it has come, what the update subcommand asks
\* for: git pull, then update_dependencies with the manager of every family
\* that has a marker, in the order Node.js, Rust, Python
UpdateSteps(e) ==
    LET n == Len(invoked[e])
        steps == << "git" >> \o
                 SelectSeq(<< NodeManager(markers[e]), CargoManager(markers[e]),
                              PythonManager(markers[e]) >>, IsManager)
    IN /\ n <= Len(steps)
       /\ Commands(e) = SubSeq(steps, 1, n)
       /\ Ended(e) => (n = Len(steps) \/ invoked[e][n].res = "launchfail")
       /\ EnteredUpdate(e) <=> (n >= 1 /\ invoked[e][1].res \in {"ok", "fail"})
       /\ n >= 1 => Cardinality(DetectedLines(e)) = n - 1

\* C13: with no subcommand a pipeline performs the steps of the update
\* subcommand, for every repository and every set of marker files: what
\* holds of the steps of a pipeline under update holds of them under none.
C13_NoneIsUpdate ==
    \A e \in Entries : action \in {"Update", "None"} => UpdateSteps(e)

C13_Witness ==
    \E e \in Entries :
        /\ action = "None"
        /\ pst[e] = "done"
        /\ Len(invoked[e]) = 3
        /\ EnteredUpdate(e)

\* the lines a pipeline task writes with println! and eprintln!
ProgressTexts ==
    {"Found repository:", "Pulling repository at", "Updating dependencies for",
     "Detected dependencies in", "No recognized dependency manager found for"}
StatusTexts == {"Successfully ran", "Failed to run"}

\* the status lines pipeline e printed
StatusLines(e) == {i \in 1..Len(printed[e]) : printed[e][i].text \in StatusTexts}

\* the run_command calls of pipeline e whose child has exited and was waited for
Waited(e) == {i \in 1..Len(invoked[e]) : invoked[e][i].res \in {"ok", "fail"}}

\* C14 as stated: while pipelines run, nothing is written to standard output
\* or standard error except through print_with_prefix.
C14_AllWritesViaEmit ==
    \A e \in Entries : printed[e] = << >>

\* C14 as amended: every line of a child goes through print_with_prefix and
\* no other way; the pipeline tasks write their own progress and status
\* lines directly: progress lines and "Successfully ran" on standard output,
\* "Failed to run" alone on standard error, one status line per command that
\* exited.
C14_ChildLinesViaEmit ==
    /\ \A r \in Readers :
          /\ \A i \in 1..Len(emitted[r]) : emitted[r][i].text \in 1..nwritten[r]
          /\ Len(emitted[r]) + (IF Busy(r) THEN 1 ELSE 0) + Len(pipe[r]) = nwritten[r]
    /\ \A e \in Entries :
          /\ \A i \in 1..Len(printed[e]) :
                /\ printed[e][i].text \in ProgressTexts \cup StatusTexts
                /\ printed[e][i].dest =
                      (IF printed[e][i].text = "Failed to run" THEN "stderr" ELSE "stdout")
          /\ Cardinality(StatusLines(e)) = Cardinality(Waited(e))

C14_Witness ==
    \E e \in Entries :
        /\ Msg("stderr", "Failed to run", "git") \in Diagnostics(e)
        /\ Msg("stdout", "Successfully ran", "cargo") \in
              {printed[e][i] : i \in 1..Len(printed[e])}
        /\ \E r \in Readers : r[1] = e /\ Len(emitted[r]) >= 1

\* what only update_dependencies prints
UpdateTexts ==
    {"Updating dependencies for", "Detected dependencies in",
     "No recognized dependency manager found for"}

\* C15: under the pull action a pipeline makes one run_command call, git
\* pull, and then sends its token: it never enters update_dependencies, so
\* it tests no marker file, invokes no dependency manager and never prints
\* the no-recognized-manager diagnostic, whatever marker files are there.
C15_PullOnly ==
    \A e \in Entries :
        action = "Pull" =>
            /\ Len(invoked[e]) <= 1
            /\ \A i \in 1..Len(invoked[e]) : invoked[e][i].cmd = "git"
            /\ pst[e] \in {"none", "start", "pull", "send", "sent", "done", "panicked"}
            /\ Ended(e) => Len(invoked[e]) = 1
            /\ pst[e] \in {"send", "sent", "done"} =>
                  (Len(invoked[e]) = 1 /\ invoked[e][1].res \in {"ok", "fail"})
            /\ \A i \in 1..Len(printed[e]) : printed[e][i].text \notin UpdateTexts
            /\ ~updated[e]

C15_Witness ==
    \E e \in Entries :
        /\ action = "Pull"
        /\ markers[e] = {"package-lock.json", "Cargo.lock"}
        /\ pst[e] = "done"
        /\ tokens[e] = 1
        /\ Commands(e) = << "git" >>

\* pipeline e printed the no-recognized-manager diagnostic
NoRecognized(e) ==
    {i \in 1..Len(printed[e]) :
        printed[e][i].text = "No recognized dependency manager found for"}

\* the run_command calls of pipeline e for a dependency manager
ManagerCalls(e) == {i \in 1..Len(invoked[e]) : invoked[e][i].cmd # "git"}

\* C16: update_dependencies prints "No recognized dependency manager found"
\* if and only if none of the seven marker files is present, and then it
\* invokes no manager; once a manager was invoked the diagnostic is never
\* printed, also when the manager exited non-zero or failed to launch.
C16_NoRecognizedIffNoMarker ==
    \A e \in Entries :
        /\ Cardinality(NoRecognized(e)) <= 1
        /\ EnteredUpdate(e) =>
              (NoRecognized(e) # {} <=> markers[e] \cap MarkerFiles = {})
        /\ NoRecognized(e) # {} => (EnteredUpdate(e) /\ ManagerCalls(e) = {})
        /\ ManagerCalls(e) # {} => NoRecognized(e) = {}

C16_Witness ==
    \E p, q \in Entries :
        /\ pst[p] = "done" /\ NoRecognized(p) # {} /\ ManagerCalls(p) = {}
        /\ pst[q] = "done" /\ NoRecognized(q) = {}
        /\ ManagerCalls(q) # {}
        /\ \A i \in ManagerCalls(q) : invoked[q][i].res = "fail"

\* the reader of the other stream of the same invocation
Sibling(r) == << r[1], r[2], IF r[3] = "out" THEN "err" ELSE "out" >>

\* C17: a read error ends the reader task of that stream and nothing else.
\* Every read error accounts for exactly one ended reader; the reader of the
\* other stream still accounts for every line of its stream (emitted, being
\* emitted or still to be read); no pipeline ends in a panic other than by a
\* launch failure of its own; every command that exited got its status line;
\* and once process_repositories has returned, a pipeline with a failed
\* reader and no launch failure has run its whole plan and sent its token.
C17_ReadErrorConfined ==
    /\ Cardinality({r \in Readers : rpc[r] = "panicked"}) = faults
    /\ \A r \in Readers :
          rpc[r] = "panicked" =>
              LET o == Sibling(r)
                  e == r[1]
              IN /\ rpc[o] # "none"
                 /\ Len(emitted[o]) + (IF Busy(o) THEN 1 ELSE 0) + Len(pipe[o]) = nwritten[o]
                 /\ \A i \in 1..Len(emitted[o]) : emitted[o][i].text = i
                 /\ pst[e] # "none"
                 /\ pst[e] = "panicked" =>
                       invoked[e][Len(invoked[e])].res = "launchfail"
                 /\ Cardinality(StatusLines(e)) = Cardinality(Waited(e))
                 /\ (Returned /\ ~LaunchFailed(e)) =>
                       /\ pst[e] = "done"
                       /\ tokens[e] = 1
                       /\ Commands(e) = Plan(action, markers[e])
                       /\ Waited(e) = 1..Len(invoked[e])

C17_Witness ==
    \E r \in Readers :
        /\ r[2] = "pull"
        /\ rpc[r] = "panicked"
        /\ Len(emitted[Sibling(r)]) >= 1
        /\ AtEof(Sibling(r))
        /\ pst[r[1]] = "done"
        /\ tokens[r[1]] = 1
        /\ Commands(r[1]) = << "git", "cargo" >>

IsManagerCommand(c) == c # "git"

\* the dependency managers pipeline e invoked, in order
ManagersInvoked(e) == SelectSeq(Commands(e), IsManagerCommand)

\* C18: detection is a function of the marker files present only: two runs
\* of update_dependencies on repositories with the same markers invoke the
\* same managers in the same order, whatever the outcome of the pull or of
\* an earlier manager was.
C18_DetectionFunctionOfMarkers ==
    \A p, q \in Entries :
        (/\ Ended(p) /\ EnteredUpdate(p)
         /\ Ended(q) /\ EnteredUpdate(q)
         /\ markers[p] = markers[q]) =>
            ManagersInvoked(p) = ManagersInvoked(q)

\* no pipeline can take a step: none is working, and those in tx.send find
\* the channel full
SendersBlocked == working = 0 /\ sending > 0 /\ chan = Capacity

\* C19: if every launched command exits, process_repositories returns, for
\* every number of repositories up to MaxRepos, which is more than the
\* channel holds: nothing is received before the walk is exhausted and tx is
\* dropped, pipelines that find the channel full wait in tx.send, a state in
\* which every pipeline left is blocked lets the receiver (or the walk) take
\* a step, and process_repositories returns in the end, with no pipeline
\* left behind.
C19_FanInTerminates ==
    /\ [][chan' < chan => opc = "drain"]_vars
    /\ [](SendersBlocked => (opc = "walk" \/ ENABLED PoolRecvSome))
    /\ [](opc = "returned" => (working = 0 /\ sending = 0 /\ chan = 0))
    /\ <>(opc = "returned")

C19_Witness ==
    /\ opc = "walk"
    /\ next - 1 > Capacity
    /\ chan = Capacity
    /\ sending > 0

\* the place of a command in the fixed order of a pipeline
StageRank(cmd) ==
    CASE cmd = "git" -> 1
      [] Family(cmd) = "node" -> 2
      [] Family(cmd) = "rust" -> 3
      [] Family(cmd) = "python" -> 4

\* the child processes of repository e that are running
RunningChildren(e) == {st \in CmdStages : child[<< e, st >>] = "running"}

\* C20: the commands of one pipeline run one at a time, in the order pull,
\* Node.js manager, Cargo, Python manager: a repository never has two child
\* processes running, and when a command is launched every command invoked
\* before it in the pipeline has exited.  (That readers of an earlier command
\* may still be emitting then is what the witness shows.)
C20_CommandsSequential ==
    \A e \in Entries :
        /\ Cardinality(RunningChildren(e)) <= 1
        /\ \A i, j \in 1..Len(invoked[e]) :
              i < j =>
                  /\ StageRank(invoked[e][i].cmd) < StageRank(invoked[e][j].cmd)
                  /\ invoked[e][i].res \in {"ok", "fail"}
        /\ \A st \in RunningChildren(e) :
              /\ pst[e] = st
              /\ invoked[e][Len(invoked[e])] = [cmd |-> CommandAt(markers[e], st), res |-> "running"]

C20_Witness ==
    \E r \in Readers :
        /\ r[2] = "pull"
        /\ InCall(r)
        /\ pipe[r] # << >>
        /\ child[<< r[1], "cargo" >>] = "running"

====
